---- MODULE Spec2Model ----
(***************************************************************************)
(* InkDrive: the monthly quota tracker, the retried database helpers, the  *)
(* chat-session upsert and the Article/ChatSession clean-up of the Flask   *)
(* application (src/app.py, src/admin.py, src/models.py).                  *)
(*                                                                         *)
(* The committed database is the variables users, articles and chats.      *)
(* Every HTTP request is a process (a slot of req) that walks through the  *)
(* database transactions of its handler; one step is one transaction (or   *)
(* the call of the AI client).  Time is counted in days.                   *)
(***************************************************************************)
EXTENDS Integers, Sequences, FiniteSets, TLC

(* ------------------------------------------------------------------ *)
(* Program constants                                                  *)
(* ------------------------------------------------------------------ *)
MONTHLY_WORD_LIMIT == 15000
MONTHLY_DOWNLOAD_LIMIT == 10
QuotaWindowDays == 30
SaveMaxRetries == 3
CheckMaxRetries == 2
TitleMaxLen == 200
AuthRefinementLimit == 5

(* ------------------------------------------------------------------ *)
(* Bounds of the model                                                *)
(* ------------------------------------------------------------------ *)
\* requests begun plus clock ticks in one behaviour
MaxEvents == 3
\* database failures injected into one request
MaxFaults == 1
\* requests begun in one behaviour of the concurrent specification
MaxRaceEvents == 2
\* requests begun in a behaviour of SpecStore
MaxStoreEvents == 2
MaxMessages == 2
MaxMessageEvents == 2
MaxRefineEvents == 6

(* ------------------------------------------------------------------ *)
(* Values                                                             *)
(* ------------------------------------------------------------------ *)
\* SQL NULL / Python None of an integer or datetime column
NoTime == 0 - 1
NoId == 0

UserIds == {1, 2}
Requests == {1, 2}

\* the e-mail addresses of the two accounts, and the configured allow-list
EmailOf(u) == IF u = 1 THEN <<"b", "o", "b", "@", "x">>
                       ELSE <<" ", "A", "d", "m", "i", "n", "@", "X">>
SUPERADMIN_EMAILS == {<<"a", "d", "m", "i", "n", "@", "x", " ">>}

\* texts the AI client returns (sequences of characters)
TextZero == <<" ">>
TextOne == <<"a">>
TextTwo == <<" ", "a", "\n", "\t", "b", " ">>

\* topics a client sends
ShortTopic == <<"t">>
LongTopic == [i \in 1..(TitleMaxLen + 1) |-> "x"]

\* chat_session_id values: none, one chosen by the client, one generated
NoSid == <<"none", 0, 0>>
ClientSid == <<"client", 0, 0>>
GeneratedSid(ts, uid) == <<"chat", ts, uid>>

(* ------------------------------------------------------------------ *)
(* Pure helpers                                                       *)
(* ------------------------------------------------------------------ *)
Whitespace == {" ", "\n", "\t"}

\* len(s.split()): the number of maximal runs of non-whitespace characters
WordCount(s) ==
    Cardinality({i \in 1..Len(s) :
                    /\ s[i] \notin Whitespace
                    /\ (i = 1 \/ s[i - 1] \in Whitespace)})

\* s[:n]
Truncate(s, n) == IF Len(s) <= n THEN s ELSE SubSeq(s, 1, n)

\* format_article_content: the markdown rendering of the raw text
FormatHtml(raw) == <<"<p>">> \o raw \o <<"</p>">>

\* str.lower() on the characters the e-mail addresses use
LowerChar(c) == CASE c = "A" -> "a"
                  [] c = "X" -> "x"
                  [] OTHER -> c
Lower(s) == [i \in 1..Len(s) |-> LowerChar(s[i])]

\* str.strip()
RECURSIVE LStrip(_)
LStrip(s) == IF s # <<>> /\ Head(s) \in Whitespace THEN LStrip(Tail(s)) ELSE s
RECURSIVE RStrip(_)
RStrip(s) == IF s # <<>> /\ s[Len(s)] \in Whitespace
             THEN RStrip(SubSeq(s, 1, Len(s) - 1)) ELSE s
Strip(s) == RStrip(LStrip(s))

\* the comparison of admin.is_superadmin and of the delete/deactivate guards
EmailIsSuperadmin(email) ==
    Strip(Lower(email)) \in {Strip(Lower(e)) : e \in SUPERADMIN_EMAILS}

\* one message of a chat log
Message(content, isUser, ts) == [content |-> content, isUser |-> isUser, ts |-> ts]

\* the two-message list every generation endpoint builds
NewMessages(userContent, aiContent, ts) ==
    <<Message(userContent, TRUE, ts), Message(aiContent, FALSE, ts)>>

\* json.dumps of one character of a string: quote, backslash and control
\* characters are written as a backslash and a code
JsonEscapeChar(c) ==
    CASE c = "\"" -> <<"\\", "\"">>
      [] c = "\\" -> <<"\\", "\\">>
      [] c = "\n" -> <<"\\", "n">>
      [] c = "\t" -> <<"\\", "t">>
      [] OTHER -> <<c>>
RECURSIVE JsonEscape(_)
JsonEscape(str) ==
    IF str = <<>> THEN <<>>
    ELSE IF Len(str) = 1 THEN JsonEscapeChar(str[1])
    ELSE JsonEscape(SubSeq(str, 1, Len(str) \div 2))
         \o JsonEscape(SubSeq(str, Len(str) \div 2 + 1, Len(str)))

\* json.loads of the characters of a string; ok is FALSE where json.loads
\* raises JSONDecodeError
JsonUnescapeCode(c) ==
    CASE c = "\"" -> <<"\"">>
      [] c = "\\" -> <<"\\">>
      [] c = "n" -> <<"\n">>
      [] c = "t" -> <<"\t">>
      [] OTHER -> <<>>
RECURSIVE JsonUnescape(_)
JsonUnescape(str) ==
    IF str = <<>> THEN [ok |-> TRUE, value |-> <<>>]
    ELSE IF Head(str) = "\"" \/ Head(str) = "\n" \/ Head(str) = "\t"
    THEN [ok |-> FALSE, value |-> <<>>]
    ELSE IF Head(str) # "\\"
    THEN LET rest == JsonUnescape(Tail(str))
         IN  [ok |-> rest.ok, value |-> <<Head(str)>> \o rest.value]
    ELSE IF Len(str) < 2 \/ JsonUnescapeCode(str[2]) = <<>>
    THEN [ok |-> FALSE, value |-> <<>>]
    ELSE LET rest == JsonUnescape(SubSeq(str, 3, Len(str)))
         IN  [ok |-> rest.ok, value |-> JsonUnescapeCode(str[2]) \o rest.value]

\* json.dumps of one message object
JsonDumpsMessage(m) == [tok |-> "obj", msg |-> [m EXCEPT !.content = JsonEscape(@)]]

\* json.dumps of a list of messages, as a sequence of tokens
RECURSIVE JoinMessages(_)
JoinMessages(ms) ==
    IF ms = <<>> THEN <<>>
    ELSE IF Len(ms) = 1 THEN <<JsonDumpsMessage(ms[1])>>
    ELSE <<JsonDumpsMessage(ms[1]), [tok |-> ",", msg |-> Message(<<>>, FALSE, 0)]>>
         \o JoinMessages(Tail(ms))
Tok(t) == [tok |-> t, msg |-> Message(<<>>, FALSE, 0)]
JsonDumps(ms) == <<Tok("[")>> \o JoinMessages(ms) \o <<Tok("]")>>

\* the messages column: NULL is the empty token sequence's absence
NullMessages == <<Tok("NULL")>>

\* ChatSession.set_messages
set_messagesDumpsEmptyList(ms) == JsonDumps(ms)
set_messages(ms) == IF ms # <<>> THEN JsonDumps(ms) ELSE NullMessages

\* json.loads of the items between the brackets
RECURSIVE JsonLoadsItems(_)
JsonLoadsItems(toks) ==
    IF toks = <<>> THEN [ok |-> TRUE, value |-> <<>>]
    ELSE IF toks[1].tok # "obj" THEN [ok |-> FALSE, value |-> <<>>]
    ELSE LET content == JsonUnescape(toks[1].msg.content)
             m == [toks[1].msg EXCEPT !.content = content.value]
         IN  IF ~content.ok THEN [ok |-> FALSE, value |-> <<>>]
             ELSE IF Len(toks) = 1 THEN [ok |-> TRUE, value |-> <<m>>]
             ELSE IF Len(toks) = 2 \/ toks[2].tok # ","
             THEN [ok |-> FALSE, value |-> <<>>]
             ELSE LET rest == JsonLoadsItems(SubSeq(toks, 3, Len(toks)))
                  IN  [ok |-> rest.ok, value |-> <<m>> \o rest.value]

\* json.loads of the messages column
JsonLoads(toks) ==
    IF Len(toks) < 2 \/ toks[1].tok # "[" \/ toks[Len(toks)].tok # "]"
    THEN [ok |-> FALSE, value |-> <<>>]
    ELSE JsonLoadsItems(SubSeq(toks, 2, Len(toks) - 1))

\* ChatSession.get_messages
get_messages(messages) ==
    IF messages = NullMessages \/ messages = <<>> THEN <<>>
    ELSE IF JsonLoads(messages).ok THEN JsonLoads(messages).value
    ELSE <<>>

(* ------------------------------------------------------------------ *)
(* State                                                              *)
(* ------------------------------------------------------------------ *)
VARIABLES
    now,            \* datetime.utcnow(), in days
    users,          \* table users: id -> row (quota columns)
    articles,       \* table articles: id -> row
    chats,          \* table chat_sessions: id -> row
    nextArticleId,  \* the next primary key of articles
    nextChatId,     \* the next primary key of chat_sessions
    req,            \* the requests in flight: slot -> handler state
    events          \* requests begun and clock ticks so far

vars == <<now, users, articles, chats, nextArticleId, nextChatId, req, events>>

\* a row of users as registration creates it
NewUser == [words_generated_this_month |-> 0, downloads_this_month |-> 0,
            last_quota_reset |-> NoTime, articles_generated |-> 0, is_active |-> TRUE]

\* the User object of a request's ORM session: attribute values as last read
\* from the database, or expired (by a commit or a rollback)
ExpiredUser == [loaded |-> FALSE, words_generated_this_month |-> 0,
                downloads_this_month |-> 0, last_quota_reset |-> NoTime,
                articles_generated |-> 0]
LoadUser(u) ==
    IF u \in DOMAIN users
    THEN [loaded |-> TRUE,
          words_generated_this_month |-> users[u].words_generated_this_month,
          downloads_this_month |-> users[u].downloads_this_month,
          last_quota_reset |-> users[u].last_quota_reset,
          articles_generated |-> users[u].articles_generated]
    ELSE ExpiredUser
\* reading an attribute refreshes an expired object
Refreshed(obj, u) == IF obj.loaded THEN obj ELSE LoadUser(u)

IdleRequest ==
    [pc |-> "idle", op |-> "none", user |-> NoId, topic |-> <<>>, sid |-> NoSid,
     article_id |-> NoId, refinements_used |-> 0, text |-> <<>>, cu |-> ExpiredUser,
     ai_calls |-> 0, ai_outcome |-> "none",
     attempt |-> 0, quota_ok |-> FALSE, check_attempts |-> 0, check_dberr |-> FALSE,
     chat_found |-> NoId, chat_ret |-> NoId, chat_attempts |-> 0, chat_dberr |-> FALSE,
     art_ret |-> NoId, art_attempts |-> 0, art_dberr |-> FALSE,
     faults |-> 0, target |-> NoId, in_window |-> FALSE, words_at_begin |-> 0,
     downloads_at_begin |-> 0, download_count_at_begin |-> 0, words0 |-> 0,
     messages_in |-> <<>>, messages_out |-> <<>>,
     max_retries |-> 0, calls |-> <<>>, wrapper_outcome |-> "none",
     wrapper_ret |-> NoId, wrapper_raised |-> "none",
     status |-> 0]

\* the database may fail (OperationalError) in any transaction, at most
\* MaxFaults times in one request
FaultChoices(q) == IF q.faults < MaxFaults THEN BOOLEAN ELSE {FALSE}
Faults(q, fail) == IF fail THEN q.faults + 1 ELSE q.faults

Free(r) == req[r].pc \in {"idle", "done"}
CanBegin(r, bound) == Free(r) /\ events < bound

(* ------------------------------------------------------------------ *)
(* retry_db_operation                                                 *)
(* ------------------------------------------------------------------ *)
\* What the try/except of a decorated function lets escape to the wrapper:
\* all four bodies end in `except Exception`, which returns a value.
Escapes(raised) == "none"

\* the except clause an exception leaving the wrapped function matches:
\* OperationalError and IntegrityError are subclasses of DatabaseError
ExceptionClass(e) ==
    IF e = "none" THEN "none"
    ELSE IF e \in {"OperationalError", "DatabaseError", "IntegrityError"} THEN "db"
    ELSE "other"

\* One turn of the wrapper's loop after an invocation that let `escaped` out.
RetryDecisionOneMore(escaped, attempt, max_retries) ==
    IF escaped = "none" THEN "return"
    ELSE IF escaped = "db" /\ attempt < max_retries THEN "retry"
    ELSE "raise"
RetryDecision(escaped, attempt, max_retries) ==
    IF escaped = "none" THEN "return"
    ELSE IF escaped = "db" /\ attempt < max_retries - 1 THEN "retry"
    ELSE "raise"

(* ------------------------------------------------------------------ *)
(* Monthly quota tracker                                              *)
(* ------------------------------------------------------------------ *)
QuotaExpiredOnThirtiethDay(last_quota_reset, t) ==
    last_quota_reset = NoTime \/ (t - last_quota_reset) >= QuotaWindowDays
QuotaExpired(last_quota_reset, t) ==
    last_quota_reset = NoTime \/ (t - last_quota_reset) > QuotaWindowDays

WordQuotaAllowsAtLimit(words) == words <= MONTHLY_WORD_LIMIT
WordQuotaAllowsWhenUnused(words) == words = 0
WordQuotaAllows(words) == words < MONTHLY_WORD_LIMIT
DownloadQuotaAllows(downloads) == downloads < MONTHLY_DOWNLOAD_LIMIT

ResetQuotaKeepsDownloads(row, t) ==
    [row EXCEPT !.words_generated_this_month = 0, !.last_quota_reset = t]
\* the reset branch of the two checks and of reset_user_limits
ResetQuota(row, t) ==
    [row EXCEPT !.words_generated_this_month = 0,
                !.downloads_this_month = 0,
                !.last_quota_reset = t]

CheckExceptReturnsFalse == FALSE
\* the value of the `except Exception` branch of the two checks
CheckExceptReturn == TRUE

\* check_monthly_word_quota / check_monthly_download_quota, one invocation:
\*   reset  - the reset branch committed
\*   ret    - the value returned
\*   raised - "db" when the commit raised (caught inside the function)
CheckQuotaBody(kind, obj, t, fail) ==
    IF QuotaExpired(obj.last_quota_reset, t)
    THEN [reset |-> ~fail,
          ret |-> IF fail THEN CheckExceptReturn ELSE TRUE,
          raised |-> IF fail THEN "db" ELSE "none"]
    ELSE [reset |-> FALSE,
          ret |-> IF kind = "words"
                  THEN WordQuotaAllows(obj.words_generated_this_month)
                  ELSE DownloadQuotaAllows(obj.downloads_this_month),
          raised |-> "none"]

\* the decorated check called by a handler at pc `at`; the handler answers 403
\* when it returns False and goes on to `next` otherwise
CheckQuota(r, kind, at, next) ==
    /\ req[r].pc = at
    /\ \E fail \in FaultChoices(req[r]) :
         LET q == req[r]
             u == q.user
             obj == Refreshed(q.cu, u)
             b == CheckQuotaBody(kind, obj, now, fail)
             d == RetryDecision(Escapes(b.raised), q.attempt, CheckMaxRetries)
         IN  /\ fail => QuotaExpired(obj.last_quota_reset, now)
             /\ u \in DOMAIN users
             /\ users' = IF b.reset THEN [users EXCEPT ![u] = ResetQuota(@, now)]
                         ELSE users
             /\ req' = [req EXCEPT ![r] =
                  IF d = "retry" THEN [q EXCEPT !.attempt = @ + 1]
                  ELSE IF d = "raise"
                  THEN [q EXCEPT !.pc = "done", !.status = 500, !.faults = Faults(q, TRUE),
                                  !.check_attempts = q.attempt + 1,
                                  !.check_dberr = TRUE, !.attempt = 0]
                  ELSE [q EXCEPT
                          !.pc = IF b.ret THEN next ELSE "done",
                          !.status = IF b.ret THEN 0 ELSE 403,
                          !.quota_ok = b.ret,
                          !.check_attempts = q.attempt + 1,
                          !.check_dberr = (b.raised = "db"),
                          !.faults = Faults(q, b.raised = "db"),
                          !.attempt = 0,
                          !.words0 = users'[u].words_generated_this_month,
                          !.cu = IF QuotaExpired(obj.last_quota_reset, now)
                                 THEN ExpiredUser ELSE obj]]
    /\ UNCHANGED <<now, articles, chats, nextArticleId, nextChatId, events>>

CheckWordQuota(r) == CheckQuota(r, "words", "check_words", "ai")

(* ------------------------------------------------------------------ *)
(* Rows                                                               *)
(* ------------------------------------------------------------------ *)
ArticleRow(u, topic, content_html, content_raw, is_refined, word_count, chat_id, t) ==
    [user_id |-> u, title |-> Truncate(topic, TitleMaxLen),
     content_html |-> content_html, content_raw |-> content_raw,
     is_refined |-> is_refined, word_count |-> word_count,
     chat_session_id |-> chat_id, download_count |-> 0,
     is_public |-> FALSE, published_at |-> NoTime, updated_at |-> t]

ChatRow(u, sid, title, messages, raw_text, studio_type, t) ==
    [user_id |-> u, session_id |-> sid, title |-> Truncate(title, TitleMaxLen),
     messages |-> set_messages(messages), raw_text |-> raw_text,
     has_refined |-> FALSE, studio_type |-> studio_type, updated_at |-> t]

\* ChatSession.query.filter_by(session_id=..., user_id=...)
ChatsOf(u, sid) ==
    {c \in DOMAIN chats : chats[c].session_id = sid /\ chats[c].user_id = u}

\* Article.query.filter_by(id=..., user_id=...)
ArticlesOf(u, aid) ==
    {a \in DOMAIN articles : a = aid /\ articles[a].user_id = u}

\* the rows .first() may return: one of the matches, or None
First(matches) == IF matches = {} THEN {NoId} ELSE matches

(* ------------------------------------------------------------------ *)
(* Generation handlers                                                *)
(* ------------------------------------------------------------------ *)
\* login_required / load_user and the argument checks of a handler
StartRequest(r, op, u, topic, sid, aid, used, pc) ==
    [IdleRequest EXCEPT !.pc = pc, !.op = op, !.user = u, !.topic = topic,
                        !.sid = sid, !.article_id = aid,
                        !.refinements_used = used, !.cu = LoadUser(u),
                        !.in_window = ~QuotaExpired(users[u].last_quota_reset, now),
                        !.words_at_begin = users[u].words_generated_this_month,
                        !.downloads_at_begin = users[u].downloads_this_month,
                        !.download_count_at_begin =
                            IF aid \in DOMAIN articles
                            THEN articles[aid].download_count ELSE 0,
                        !.words0 = users[u].words_generated_this_month]

\* POST /api/v1/generate/article
BeginGenerateArticle(r, u, topic, sid, bound) ==
    /\ CanBegin(r, bound)
    /\ u \in DOMAIN users
    /\ req' = [req EXCEPT ![r] =
                 StartRequest(r, "article", u, topic, sid, NoId, 0, "check_words")]
    /\ events' = events + 1
    /\ UNCHANGED <<now, users, articles, chats, nextArticleId, nextChatId>>

\* POST /api/v1/generate/script (the social, brainstorm, e-commerce, web copy,
\* business, text refinement, repurpose and SEO handlers have the same steps)
BeginGenerateScript(r, u, topic, sid, bound) ==
    /\ CanBegin(r, bound)
    /\ u \in DOMAIN users
    /\ req' = [req EXCEPT ![r] =
                 StartRequest(r, "script", u, topic, sid, NoId, 0, "check_words")]
    /\ events' = events + 1
    /\ UNCHANGED <<now, users, articles, chats, nextArticleId, nextChatId>>

\* POST /api/v1/refine/article by an authenticated user
BeginRefineArticle(r, u, aid, sid, used, bound) ==
    /\ CanBegin(r, bound)
    /\ u \in DOMAIN users
    /\ req' = [req EXCEPT ![r] =
                 IF used >= AuthRefinementLimit
                 THEN [StartRequest(r, "refine", u, <<>>, sid, aid, used, "done")
                          EXCEPT !.status = 403]
                 ELSE StartRequest(r, "refine", u, <<>>, sid, aid, used, "check_words")]
    /\ events' = events + 1
    /\ UNCHANGED <<now, users, articles, chats, nextArticleId, nextChatId>>

AiCallRetriesOnce(r, outcome, text) ==
    /\ req[r].pc = "ai"
    /\ outcome \in {"text", "empty", "raise"}
    /\ outcome # "text" => text = <<>>
    /\ req' = [req EXCEPT ![r] =
                 IF outcome = "text"
                 THEN [req[r] EXCEPT !.text = text, !.ai_calls = @ + 1,
                                     !.ai_outcome = outcome,
                                     !.pc = IF req[r].op = "refine"
                                            THEN "refine_count" ELSE "save_chat"]
                 ELSE IF req[r].ai_calls = 0
                 THEN [req[r] EXCEPT !.ai_calls = @ + 1, !.ai_outcome = outcome]
                 ELSE [req[r] EXCEPT !.pc = "done", !.status = 500,
                                     !.ai_calls = @ + 1, !.ai_outcome = outcome]]
    /\ UNCHANGED <<now, users, articles, chats, nextArticleId, nextChatId, events>>
\* CLIENT.generate_content: a text, an empty or blocked response, or an exception
AiCall(r, outcome, text) ==
    /\ req[r].pc = "ai"
    /\ outcome \in {"text", "empty", "raise"}
    /\ outcome # "text" => text = <<>>
    /\ req' = [req EXCEPT ![r] =
                 IF outcome = "text"
                 THEN [req[r] EXCEPT !.text = text, !.ai_calls = @ + 1,
                                     !.ai_outcome = outcome,
                                     !.pc = IF req[r].op = "refine"
                                            THEN "refine_count" ELSE "save_chat"]
                 ELSE [req[r] EXCEPT !.pc = "done", !.status = 500,
                                     !.ai_calls = @ + 1, !.ai_outcome = outcome]]
    /\ UNCHANGED <<now, users, articles, chats, nextArticleId, nextChatId, events>>

\* the arguments the handlers pass to save_chat_session_to_db
SessionIdOf(q) == IF q.sid = NoSid THEN GeneratedSid(now, q.user) ELSE q.sid
SessionTitleOf(q) ==
    IF q.op = "article" THEN q.topic
    ELSE <<"Script: ">> \o Truncate(q.topic, 40)
         \o (IF Len(q.topic) > 40 THEN <<"...">> ELSE <<>>)
SessionMessagesOf(q) ==
    IF q.op = "article" THEN NewMessages(q.topic, FormatHtml(q.text), now)
    ELSE NewMessages(<<"{">> \o q.topic \o <<"}">>, q.text, now)
StudioTypeOf(q) == IF q.op = "article" THEN "ARTICLE" ELSE "SCRIPT"

UpsertAlwaysInserts(c, u, sid, title, messages, raw_text, studio_type, t) ==
    [chats |-> chats @@ (nextChatId :>
                 ChatRow(u, sid, title, messages, raw_text, studio_type, t)),
     ret |-> nextChatId, next |-> nextChatId + 1]
\* the body of save_chat_session_to_db when nothing raises: update the row c
\* that .first() returned, or insert a new one
UpsertChatSession(c, u, sid, title, messages, raw_text, studio_type, t) ==
    IF c # NoId
    THEN [chats |-> [chats EXCEPT ![c].title = Truncate(title, TitleMaxLen),
                                  ![c].messages = set_messages(messages),
                                  ![c].raw_text = raw_text,
                                  ![c].studio_type = studio_type,
                                  ![c].updated_at = t],
          ret |-> c, next |-> nextChatId]
    ELSE [chats |-> chats @@ (nextChatId :>
                      ChatRow(u, sid, title, messages, raw_text, studio_type, t)),
          ret |-> nextChatId, next |-> nextChatId + 1]

\* save_chat_session_to_db, decorated, called by a generation handler
\* save_chat_session_to_db, the query: ChatSession.query.filter_by(
\* session_id=..., user_id=...).first().  The row it returns is what the
\* rest of the function works with; other requests may commit before this
\* one does.
SaveChatSessionRead(r) ==
    /\ req[r].pc = "save_chat"
    /\ \E c \in First(ChatsOf(req[r].user, SessionIdOf(req[r]))) :
         req' = [req EXCEPT ![r] = [req[r] EXCEPT !.pc = "save_chat_commit",
                                                  !.chat_found = c]]
    /\ UNCHANGED <<now, users, articles, chats, nextArticleId, nextChatId, events>>

\* save_chat_session_to_db, the write and the commit.  An UPDATE of a row
\* deleted since the query matches no row (StaleDataError), which the
\* function's except answers like a database error: rollback, return None.
SaveChatSession(r) ==
    /\ req[r].pc = "save_chat_commit"
    /\ \E dberr \in FaultChoices(req[r]) :
         LET q == req[r]
             c == q.chat_found
             fail == dberr \/ (c # NoId /\ c \notin DOMAIN chats)
             up == UpsertChatSession(c, q.user, SessionIdOf(q), SessionTitleOf(q),
                                     SessionMessagesOf(q), q.text, StudioTypeOf(q), now)
             raised == IF fail THEN "db" ELSE "none"
             d == RetryDecision(Escapes(raised), q.attempt, SaveMaxRetries)
         IN  /\ chats' = IF fail THEN chats ELSE up.chats
             /\ nextChatId' = IF fail THEN nextChatId ELSE up.next
             /\ req' = [req EXCEPT ![r] =
                  IF d = "retry" THEN [q EXCEPT !.attempt = @ + 1, !.pc = "save_chat"]
                  ELSE IF d = "raise"
                  THEN [q EXCEPT !.pc = "done", !.status = 500, !.faults = Faults(q, TRUE),
                                  !.chat_attempts = q.attempt + 1,
                                  !.chat_dberr = TRUE, !.attempt = 0]
                  ELSE [q EXCEPT
                          !.pc = IF q.op = "article" THEN "save_article" ELSE "done",
                          !.status = IF q.op = "article" THEN 0 ELSE 200,
                          !.sid = SessionIdOf(q),
                          !.chat_ret = IF fail THEN NoId ELSE up.ret,
                          !.chat_attempts = q.attempt + 1,
                          !.chat_dberr = fail,
                          !.faults = Faults(q, dberr),
                          !.attempt = 0,
                          !.cu = ExpiredUser]]
    /\ UNCHANGED <<now, users, articles, nextArticleId, events>>

CountArticleAlwaysResets(row, obj, word_count, t) ==
    [row EXCEPT !.articles_generated = obj.articles_generated + 1,
                !.words_generated_this_month = word_count,
                !.downloads_this_month = 0,
                !.last_quota_reset = t]
\* save_article_to_db, create path: what the session flushes for the user row
\* (articles_generated and the quota columns), computed from the object read
CountArticle(row, obj, word_count, t) ==
    IF QuotaExpired(obj.last_quota_reset, t)
    THEN [row EXCEPT !.articles_generated = obj.articles_generated + 1,
                     !.words_generated_this_month = word_count,
                     !.downloads_this_month = 0,
                     !.last_quota_reset = t]
    ELSE [row EXCEPT !.articles_generated = obj.articles_generated + 1,
                     !.words_generated_this_month =
                         obj.words_generated_this_month + word_count]

\* INSERT of an Article whose chat_session_id names a row that is gone: the
\* default SQLite database does not enforce the foreign key and stores it,
\* PostgreSQL raises IntegrityError
ForeignKeyChoices(cid) ==
    IF cid # NoId /\ cid \notin DOMAIN chats THEN {TRUE} ELSE {}

PersistWithoutRollback(row, pending, fail) == pending
\* db.session.commit() or, when it raises, db.session.rollback(): what the
\* database holds afterwards of a row and its pending change
Persist(row, pending, fail) == IF fail THEN row ELSE pending

\* save_article_to_db, create path, first half: the Article is added to the
\* session and the user row is read (User.query.get and the attribute refresh)
SaveArticleRead(r) ==
    /\ req[r].pc = "save_article"
    /\ \E fail \in FaultChoices(req[r]) :
         LET q == req[r]
             raised == IF fail THEN "db" ELSE "none"
             d == RetryDecision(Escapes(raised), q.attempt, SaveMaxRetries)
         IN  req' = [req EXCEPT ![r] =
                  IF d = "retry" THEN [q EXCEPT !.attempt = @ + 1]
                  ELSE IF d = "raise"
                  THEN [q EXCEPT !.pc = "done", !.status = 500, !.faults = Faults(q, TRUE),
                                  !.art_attempts = q.attempt + 1,
                                  !.art_dberr = TRUE, !.attempt = 0]
                  ELSE IF fail
                  THEN [q EXCEPT !.pc = "done", !.status = 200, !.art_ret = NoId,
                                  !.art_attempts = q.attempt + 1, !.art_dberr = TRUE,
                                  !.faults = Faults(q, TRUE), !.attempt = 0, !.cu = ExpiredUser]
                  ELSE [q EXCEPT !.pc = "save_article_commit",
                                  !.cu = Refreshed(q.cu, q.user)]]
    /\ UNCHANGED <<now, users, articles, chats, nextArticleId, nextChatId, events>>

\* save_article_to_db, create path, second half: db.session.commit() writes the
\* Article row and the user row in one transaction, or the except branch rolls
\* both back and returns None
SaveArticleCommit(r) ==
    /\ req[r].pc = "save_article_commit"
    /\ \E fail \in FaultChoices(req[r]) \cup ForeignKeyChoices(req[r].chat_ret) :
         LET q == req[r]
             u == q.user
             word_count == WordCount(q.text)
             raised == IF fail THEN "db" ELSE "none"
             d == RetryDecision(Escapes(raised), q.attempt, SaveMaxRetries)
             saved == ~fail
         IN  /\ articles' = IF saved
                            THEN articles @@ (nextArticleId :>
                                   ArticleRow(u, q.topic, FormatHtml(q.text), q.text,
                                              FALSE, word_count, q.chat_ret, now))
                            ELSE articles
             /\ nextArticleId' = IF saved THEN nextArticleId + 1 ELSE nextArticleId
             /\ users' = IF u \in DOMAIN users /\ q.cu.loaded
                         THEN [users EXCEPT ![u] =
                                 Persist(@, CountArticle(@, q.cu, word_count, now), fail)]
                         ELSE users
             /\ req' = [req EXCEPT ![r] =
                  IF d = "retry" THEN [q EXCEPT !.attempt = @ + 1, !.pc = "save_article"]
                  ELSE IF d = "raise"
                  THEN [q EXCEPT !.pc = "done", !.status = 500, !.faults = Faults(q, TRUE),
                                  !.art_attempts = q.attempt + 1,
                                  !.art_dberr = TRUE, !.attempt = 0]
                  ELSE [q EXCEPT !.pc = "done", !.status = 200,
                                  !.art_ret = IF saved THEN nextArticleId ELSE NoId,
                                  !.art_attempts = q.attempt + 1,
                                  !.art_dberr = fail,
                                  !.faults = Faults(q, fail),
                                  !.attempt = 0,
                                  !.cu = ExpiredUser]]
    /\ UNCHANGED <<now, chats, nextChatId, events>>

(* ------------------------------------------------------------------ *)
(* refine_article                                                     *)
(* ------------------------------------------------------------------ *)
\* where refine_article goes after a step: the article update when an
\* article_id was sent, then the chat update when a chat_session_id was sent
AfterRefineCount(q) ==
    IF q.article_id # NoId THEN "refine_article"
    ELSE IF q.sid # NoSid THEN "refine_chat" ELSE "done"
AfterRefineArticle(q) == IF q.sid # NoSid THEN "refine_chat" ELSE "done"

\* current_user.words_generated_this_month = (... or 0) + word_count; commit.
\* The object is the one loaded for the request unless a commit expired it.
RefineCount(r) ==
    /\ req[r].pc = "refine_count"
    /\ \E fail \in FaultChoices(req[r]) :
         LET q == req[r]
             u == q.user
             obj == Refreshed(q.cu, u)
             word_count == WordCount(q.text)
         IN  /\ u \in DOMAIN users
             /\ users' = IF fail THEN users
                         ELSE [users EXCEPT ![u].words_generated_this_month =
                                   obj.words_generated_this_month + word_count]
             /\ req' = [req EXCEPT ![r] =
                  IF fail
                  THEN [q EXCEPT !.pc = "done", !.status = 500, !.faults = Faults(q, TRUE),
                                  !.cu = ExpiredUser]
                  ELSE [q EXCEPT !.pc = AfterRefineCount(q),
                                  !.status = IF AfterRefineCount(q) = "done"
                                             THEN 200 ELSE 0,
                                  !.cu = ExpiredUser]]
    /\ UNCHANGED <<now, articles, chats, nextArticleId, nextChatId, events>>

\* save_article_to_db, update path (article_id given), when nothing raises
UpdateArticleKeepsWordCount(a, content_html, content_raw, is_refined, t) ==
    [articles EXCEPT ![a].content_html = content_html,
                     ![a].content_raw = content_raw,
                     ![a].is_refined = is_refined,
                     ![a].updated_at = t]
UpdateArticle(a, content_html, content_raw, is_refined, t) ==
    [articles EXCEPT ![a].content_html = content_html,
                     ![a].content_raw = content_raw,
                     ![a].is_refined = is_refined,
                     ![a].word_count = WordCount(content_raw),
                     ![a].updated_at = t]

\* save_article_to_db(current_user.id, "", final_html, refined_text, True, article_id)
RefineSaveArticle(r) ==
    /\ req[r].pc = "refine_article"
    /\ \E fail \in FaultChoices(req[r]), a \in First(ArticlesOf(req[r].user, req[r].article_id)) :
         LET q == req[r]
             raised == IF fail THEN "db" ELSE "none"
             d == RetryDecision(Escapes(raised), q.attempt, SaveMaxRetries)
             saved == ~fail /\ a # NoId
         IN  /\ articles' = IF saved
                            THEN UpdateArticle(a, FormatHtml(q.text), q.text, TRUE, now)
                            ELSE articles
             /\ req' = [req EXCEPT ![r] =
                  IF d = "retry" THEN [q EXCEPT !.attempt = @ + 1]
                  ELSE IF d = "raise"
                  THEN [q EXCEPT !.pc = "done", !.status = 500, !.faults = Faults(q, TRUE),
                                  !.art_attempts = q.attempt + 1,
                                  !.art_dberr = TRUE, !.attempt = 0]
                  ELSE [q EXCEPT !.pc = AfterRefineArticle(q),
                                  !.status = IF AfterRefineArticle(q) = "done"
                                             THEN 200 ELSE 0,
                                  !.art_ret = IF saved THEN a ELSE NoId,
                                  !.art_attempts = q.attempt + 1,
                                  !.art_dberr = fail,
                                  !.faults = Faults(q, fail),
                                  !.attempt = 0]]
    /\ UNCHANGED <<now, users, chats, nextArticleId, nextChatId, events>>

\* a call of save_chat_session_to_db with the message list ms
SaveMessages(r, u, sid, ms, bound) ==
    /\ CanBegin(r, bound)
    /\ \E fail \in FaultChoices(IdleRequest), c \in First(ChatsOf(u, sid)) :
         LET up == UpsertChatSession(c, u, sid, ShortTopic, ms, <<>>, "ARTICLE", now)
         IN  /\ chats' = IF fail THEN chats ELSE up.chats
             /\ nextChatId' = IF fail THEN nextChatId ELSE up.next
             /\ req' = [req EXCEPT ![r] =
                  [StartRequest(r, "save_messages", u, <<>>, sid, NoId, 0,
                                IF fail THEN "done" ELSE "stored")
                     EXCEPT !.messages_in = IF fail THEN <<>> ELSE ms,
                            !.chat_ret = IF fail THEN NoId ELSE up.ret,
                            !.chat_dberr = fail,
                            !.status = IF fail THEN 500 ELSE 0,
                            !.faults = Faults(IdleRequest, fail)]]
    /\ events' = events + 1
    /\ UNCHANGED <<now, users, articles, nextArticleId>>

\* GET /api/chat-session/<session_id>: to_dict() reads get_messages()
ApiGetChatSession(r) ==
    /\ req[r].pc = "stored"
    /\ \E c \in First(ChatsOf(req[r].user, req[r].sid)) :
         req' = [req EXCEPT ![r] =
                  IF c = NoId
                  THEN [req[r] EXCEPT !.pc = "done", !.status = 404]
                  ELSE [req[r] EXCEPT !.pc = "done", !.status = 200,
                                      !.messages_out = get_messages(chats[c].messages)]]
    /\ UNCHANGED <<now, users, articles, chats, nextArticleId, nextChatId, events>>

\* the string surgery of refine_article on the messages column
AppendWithoutNullCase(messages, user_message, ai_message) ==
    SubSeq(messages, 1, Len(messages) - 1)
    \o <<Tok(","), JsonDumpsMessage(user_message), Tok(","),
         JsonDumpsMessage(ai_message), Tok("]")>>
AppendToMessages(messages, user_message, ai_message) ==
    LET current == IF messages = NullMessages \/ messages = <<>>
                   THEN <<Tok("["), Tok("]")>> ELSE messages
        new == <<JsonDumpsMessage(user_message), Tok(","),
                 JsonDumpsMessage(ai_message), Tok("]")>>
    IN  IF current = <<Tok("["), Tok("]")>>
        THEN <<Tok("[")>> \o new
        ELSE SubSeq(current, 1, Len(current) - 1) \o <<Tok(",")>> \o new

\* the chat-session update of refine_article
RefineSaveChat(r) ==
    /\ req[r].pc = "refine_chat"
    /\ \E fail \in FaultChoices(req[r]), c \in First(ChatsOf(req[r].user, req[r].sid)) :
         LET q == req[r]
         IN  /\ chats' = IF fail \/ c = NoId THEN chats
                         ELSE [chats EXCEPT
                                 ![c].messages = AppendToMessages(@,
                                      Message(<<"refine">>, TRUE, now),
                                      Message(FormatHtml(q.text), FALSE, now)),
                                 ![c].raw_text = q.text,
                                 ![c].has_refined = TRUE,
                                 ![c].updated_at = now]
             /\ req' = [req EXCEPT ![r] =
                  IF fail
                  THEN [q EXCEPT !.pc = "done", !.status = 500, !.faults = Faults(q, TRUE)]
                  ELSE [q EXCEPT !.pc = "done", !.status = 200]]
    /\ UNCHANGED <<now, users, articles, nextArticleId, nextChatId, events>>

(* ------------------------------------------------------------------ *)
(* Downloads                                                          *)
(* ------------------------------------------------------------------ *)
\* POST /api/articles/<id>/download: first_or_404, then the quota check; the
\* NotFound of first_or_404 is raised inside the handler's try and caught by
\* its `except Exception`, which answers 500
BeginApiDownload(r, u, aid, bound) ==
    /\ CanBegin(r, bound)
    /\ u \in DOMAIN users
    /\ req' = [req EXCEPT ![r] =
                 IF ArticlesOf(u, aid) = {}
                 THEN [StartRequest(r, "api_download", u, <<>>, NoSid, aid, 0, "done")
                          EXCEPT !.status = 500]
                 ELSE StartRequest(r, "api_download", u, <<>>, NoSid, aid, 0, "check_dl")]
    /\ events' = events + 1
    /\ UNCHANGED <<now, users, articles, chats, nextArticleId, nextChatId>>

\* POST /download-docx by an authenticated user: the quota is checked only when
\* an article_id is sent
BeginDownloadDocx(r, u, aid, bound) ==
    /\ CanBegin(r, bound)
    /\ u \in DOMAIN users
    /\ req' = [req EXCEPT ![r] =
                 IF aid = NoId
                 THEN [StartRequest(r, "download_docx", u, <<>>, NoSid, aid, 0, "done")
                          EXCEPT !.status = 200]
                 ELSE StartRequest(r, "download_docx", u, <<>>, NoSid, aid, 0, "check_dl")]
    /\ events' = events + 1
    /\ UNCHANGED <<now, users, articles, chats, nextArticleId, nextChatId>>

CheckDownloadQuota(r) == CheckQuota(r, "downloads", "check_dl", "dl_article")

\* Article.increment_download: its own commit, a failure is rolled back and
\* swallowed.  download_docx looks the article up here and skips both counters
\* when it is not the caller's.
DownloadCountArticle(r) ==
    /\ req[r].pc = "dl_article"
    /\ \E fail \in FaultChoices(req[r]), a \in First(ArticlesOf(req[r].user, req[r].article_id)) :
         LET q == req[r]
         IN  /\ (a = NoId) => ~fail
             /\ articles' = IF fail \/ a = NoId THEN articles
                            ELSE [articles EXCEPT ![a].download_count = @ + 1]
             /\ req' = [req EXCEPT ![r] =
                  IF a = NoId
                  THEN [q EXCEPT !.pc = "done", !.status = 200]
                  ELSE [q EXCEPT !.pc = "dl_user", !.cu = ExpiredUser,
                                  !.faults = Faults(q, fail)]]
    /\ UNCHANGED <<now, users, chats, nextArticleId, nextChatId, events>>

\* current_user.downloads_this_month = (... or 0) + 1; commit.  A failure is a
\* 500 of api_download_article and is swallowed by download_docx.
DownloadCountUser(r) ==
    /\ req[r].pc = "dl_user"
    /\ \E fail \in FaultChoices(req[r]) :
         LET q == req[r]
             u == q.user
             obj == Refreshed(q.cu, u)
         IN  /\ u \in DOMAIN users
             /\ users' = IF fail THEN users
                         ELSE [users EXCEPT ![u].downloads_this_month =
                                   obj.downloads_this_month + 1]
             /\ req' = [req EXCEPT ![r] =
                  [q EXCEPT !.pc = "done",
                            !.status = IF fail /\ q.op = "api_download" THEN 500 ELSE 200,
                            !.faults = Faults(q, fail),
                            !.cu = ExpiredUser]]
    /\ UNCHANGED <<now, articles, chats, nextArticleId, nextChatId, events>>

(* ------------------------------------------------------------------ *)
(* Admin                                                              *)
(* ------------------------------------------------------------------ *)
\* admin.is_superadmin for an authenticated caller
is_superadmin(caller) == caller \in DOMAIN users /\ EmailIsSuperadmin(EmailOf(caller))

\* login_required, the outer decorator of every admin route, for a caller who
\* is not logged in: login_manager.login_view is set, so the answer is the
\* redirect to the login page and superadmin_required is never reached
AdminRoutes == {"admin_reset", "admin_delete_content", "admin_delete_session",
                "admin_delete_user", "admin_toggle_public", "admin_toggle_active"}
AdminAnonymous(r, route, bound) ==
    /\ CanBegin(r, bound)
    /\ route \in AdminRoutes
    /\ req' = [req EXCEPT ![r] =
                 [IdleRequest EXCEPT !.pc = "done", !.op = route, !.status = 302]]
    /\ events' = events + 1
    /\ UNCHANGED <<now, users, articles, chats, nextArticleId, nextChatId>>

\* POST /admin/api/users/<id>/reset-limits: one transaction
AdminResetUserLimits(r, caller, target, bound) ==
    /\ CanBegin(r, bound)
    /\ caller \in DOMAIN users
    /\ \E fail \in FaultChoices(IdleRequest) :
         LET allowed == is_superadmin(caller)
             found == target \in DOMAIN users
             done == allowed /\ found /\ ~fail
             q == [StartRequest(r, "admin_reset", caller, <<>>, NoSid, NoId, 0, "done")
                     EXCEPT !.target = target,
                            !.in_window = found /\
                                ~QuotaExpired(users[target].last_quota_reset, now),
                            !.words_at_begin =
                                IF found THEN users[target].words_generated_this_month
                                ELSE 0,
                            !.downloads_at_begin =
                                IF found THEN users[target].downloads_this_month
                                ELSE 0]
         IN  /\ fail => (allowed /\ found)
             /\ users' = IF done THEN [users EXCEPT ![target] = ResetQuota(@, now)]
                         ELSE users
             /\ req' = [req EXCEPT ![r] =
                  [q EXCEPT !.status = IF ~allowed THEN 404 ELSE IF ~found THEN 500
                                       ELSE IF fail THEN 500 ELSE 200,
                            !.faults = Faults(q, fail)]]
    /\ events' = events + 1
    /\ UNCHANGED <<now, articles, chats, nextArticleId, nextChatId>>

(* ------------------------------------------------------------------ *)
(* Deleting articles, chat sessions and accounts                      *)
(* ------------------------------------------------------------------ *)
\* Query.delete(): the rows leave the table, nothing else is touched
RemoveRows(table, ids) == [k \in DOMAIN table \ ids |-> table[k]]

\* db.session.delete(chat_session) at flush: ChatSession.articles has no delete
\* cascade, so the unit of work sets chat_session_id of the Articles still
\* pointing to the session to NULL before the session row is deleted
DetachArticles(arts, c) ==
    [a \in DOMAIN arts |->
        IF arts[a].chat_session_id = c
        THEN [arts[a] EXCEPT !.chat_session_id = NoId] ELSE arts[a]]

\* the answer of a handler that runs in one transaction
Answer(r, op, u, sid, aid, target, status, fail) ==
    [StartRequest(r, op, u, <<>>, sid, aid, 0, "done")
        EXCEPT !.status = status, !.target = target,
               !.faults = Faults(IdleRequest, fail)]

\* POST /article/<id>/delete
DeleteArticle(r, u, aid, bound) ==
    /\ CanBegin(r, bound)
    /\ u \in DOMAIN users
    /\ \E fail \in FaultChoices(IdleRequest) :
         LET found == ArticlesOf(u, aid) # {}
             cid == IF found THEN articles[aid].chat_session_id ELSE NoId
             chat_session == IF cid # NoId /\ cid \in DOMAIN chats
                                /\ chats[cid].user_id = u
                             THEN cid ELSE NoId
             done == found /\ ~fail
         IN  /\ fail => found
             /\ chats' = IF done /\ chat_session # NoId
                         THEN RemoveRows(chats, {chat_session}) ELSE chats
             /\ articles' = IF ~done THEN articles
                            ELSE IF chat_session # NoId
                            THEN RemoveRows(DetachArticles(articles, chat_session), {aid})
                            ELSE RemoveRows(articles, {aid})
             /\ req' = [req EXCEPT ![r] =
                  Answer(r, "delete_article", u, NoSid, aid, NoId,
                         IF ~found \/ fail THEN 500 ELSE 200, fail)]
    /\ events' = events + 1
    /\ UNCHANGED <<now, users, nextArticleId, nextChatId>>

\* DELETE /api/chat-sessions/<session_id>
DeleteChatSession(r, u, sid, bound) ==
    /\ CanBegin(r, bound)
    /\ u \in DOMAIN users
    /\ \E fail \in FaultChoices(IdleRequest), c \in First(ChatsOf(u, sid)) :
         LET found == c # NoId
             done == found /\ ~fail
             own == {a \in DOMAIN articles :
                       articles[a].chat_session_id = c /\ articles[a].user_id = u}
         IN  /\ fail => found
             /\ articles' = IF done THEN DetachArticles(RemoveRows(articles, own), c)
                            ELSE articles
             /\ chats' = IF done THEN RemoveRows(chats, {c}) ELSE chats
             /\ req' = [req EXCEPT ![r] =
                  Answer(r, "delete_chat", u, sid, NoId, c,
                         IF ~found THEN 404 ELSE IF fail THEN 500 ELSE 200, fail)]
    /\ events' = events + 1
    /\ UNCHANGED <<now, users, nextArticleId, nextChatId>>

\* POST /admin/api/content/<id>/delete
AdminDeleteContent(r, caller, aid, bound) ==
    /\ CanBegin(r, bound)
    /\ caller \in DOMAIN users
    /\ \E fail \in FaultChoices(IdleRequest) :
         LET allowed == is_superadmin(caller)
             found == aid \in DOMAIN articles
             \* content.author.name raises when the author row is gone
             raises == found /\ articles[aid].user_id \notin DOMAIN users
             cid == IF found THEN articles[aid].chat_session_id ELSE NoId
             other_content == {a \in DOMAIN articles :
                                 articles[a].chat_session_id = cid /\ a # aid}
             chat_session == IF cid # NoId /\ other_content = {} /\ cid \in DOMAIN chats
                             THEN cid ELSE NoId
             done == allowed /\ found /\ ~raises /\ ~fail
         IN  /\ fail => (allowed /\ found /\ ~raises)
             /\ chats' = IF done /\ chat_session # NoId
                         THEN RemoveRows(chats, {chat_session}) ELSE chats
             /\ articles' = IF ~done THEN articles
                            ELSE IF chat_session # NoId
                            THEN RemoveRows(DetachArticles(articles, chat_session), {aid})
                            ELSE RemoveRows(articles, {aid})
             /\ req' = [req EXCEPT ![r] =
                  Answer(r, "admin_delete_content", caller, NoSid, aid, NoId,
                         IF ~allowed THEN 404 ELSE IF ~found THEN 500
                         ELSE IF raises \/ fail THEN 500 ELSE 200, fail)]
    /\ events' = events + 1
    /\ UNCHANGED <<now, users, nextArticleId, nextChatId>>

\* POST /admin/api/sessions/<id>/delete
AdminDeleteSession(r, caller, c, bound) ==
    /\ CanBegin(r, bound)
    /\ caller \in DOMAIN users
    /\ \E fail \in FaultChoices(IdleRequest) :
         LET allowed == is_superadmin(caller)
             found == c \in DOMAIN chats
             \* session.user.name raises when the owner row is gone
             raises == found /\ chats[c].user_id \notin DOMAIN users
             done == allowed /\ found /\ ~raises /\ ~fail
             content == {a \in DOMAIN articles : articles[a].chat_session_id = c}
         IN  /\ fail => (allowed /\ found /\ ~raises)
             /\ articles' = IF done THEN DetachArticles(RemoveRows(articles, content), c)
                            ELSE articles
             /\ chats' = IF done THEN RemoveRows(chats, {c}) ELSE chats
             /\ req' = [req EXCEPT ![r] =
                  Answer(r, "admin_delete_session", caller, NoSid, NoId, c,
                         IF ~allowed THEN 404 ELSE IF ~found THEN 500
                         ELSE IF raises \/ fail THEN 500 ELSE 200, fail)]
    /\ events' = events + 1
    /\ UNCHANGED <<now, users, nextArticleId, nextChatId>>

DeleteUserRowsKeepsChats(u) ==
    [articles |-> RemoveRows(articles, {a \in DOMAIN articles : articles[a].user_id = u}),
     chats |-> chats,
     users |-> RemoveRows(users, {u})]
\* Article.publish and Article.unpublish, the row they commit
publish(row, t) == [row EXCEPT !.is_public = TRUE, !.published_at = t]
unpublishKeepsTimestamp(row) == [row EXCEPT !.is_public = FALSE]
unpublish(row) == [row EXCEPT !.is_public = FALSE, !.published_at = NoTime]

\* POST /admin/api/content/<id>/toggle-public
AdminToggleContentPublic(r, caller, aid, bound) ==
    /\ CanBegin(r, bound)
    /\ caller \in DOMAIN users
    /\ \E fail \in FaultChoices(IdleRequest) :
         LET allowed == is_superadmin(caller)
             found == aid \in DOMAIN articles
             done == allowed /\ found /\ ~fail
             \* content.author.name in the log line after the commit
             raises == found /\ articles[aid].user_id \notin DOMAIN users
         IN  /\ fail => (allowed /\ found)
             /\ articles' = IF ~done THEN articles
                            ELSE IF articles[aid].is_public
                            THEN [articles EXCEPT ![aid] = unpublish(@)]
                            ELSE [articles EXCEPT ![aid] = publish(@, now)]
             /\ req' = [req EXCEPT ![r] =
                  Answer(r, "admin_toggle_public", caller, NoSid, aid, NoId,
                         IF ~allowed THEN 404 ELSE IF ~found THEN 500
                         ELSE IF fail \/ raises THEN 500 ELSE 200, fail)]
    /\ events' = events + 1
    /\ UNCHANGED <<now, users, chats, nextArticleId, nextChatId>>

\* the three deletes of profile_delete_account and of admin delete_user: the
\* user's articles and chat sessions by Query.delete(), then the user row
DeleteUserRows(u) ==
    [articles |-> RemoveRows(articles, {a \in DOMAIN articles : articles[a].user_id = u}),
     chats |-> RemoveRows(chats, {c \in DOMAIN chats : chats[c].user_id = u}),
     users |-> RemoveRows(users, {u})]

\* POST /profile/delete-account
ProfileDeleteAccount(r, u, bound) ==
    /\ CanBegin(r, bound)
    /\ \A o \in Requests : Free(o)
    /\ u \in DOMAIN users
    /\ \E fail \in FaultChoices(IdleRequest) :
         LET rows == DeleteUserRows(u)
         IN  /\ articles' = IF fail THEN articles ELSE rows.articles
             /\ chats' = IF fail THEN chats ELSE rows.chats
             /\ users' = IF fail THEN users ELSE rows.users
             /\ req' = [req EXCEPT ![r] =
                  Answer(r, "delete_account", u, NoSid, NoId, u,
                         302, fail)]
    /\ events' = events + 1
    /\ UNCHANGED <<now, nextArticleId, nextChatId>>

\* the guard of admin delete_user and toggle_user_active against deleting or
\* deactivating a superadmin account
IsProtectedExactMatch(target) == EmailOf(target) \in SUPERADMIN_EMAILS
IsProtected(target) == EmailIsSuperadmin(EmailOf(target))

\* POST /admin/api/users/<id>/delete
AdminDeleteUser(r, caller, target, bound) ==
    /\ CanBegin(r, bound)
    /\ \A o \in Requests : Free(o)
    /\ caller \in DOMAIN users
    /\ \E fail \in FaultChoices(IdleRequest) :
         LET allowed == is_superadmin(caller)
             found == target \in DOMAIN users
             protected == found /\ IsProtected(target)
             done == allowed /\ found /\ ~protected /\ ~fail
             rows == DeleteUserRows(target)
         IN  /\ fail => (allowed /\ found /\ ~protected)
             /\ articles' = IF done THEN rows.articles ELSE articles
             /\ chats' = IF done THEN rows.chats ELSE chats
             /\ users' = IF done THEN rows.users ELSE users
             /\ req' = [req EXCEPT ![r] =
                  Answer(r, "admin_delete_user", caller, NoSid, NoId, target,
                         IF ~allowed THEN 404 ELSE IF ~found THEN 500
                         ELSE IF protected THEN 403
                         ELSE IF fail THEN 500 ELSE 200, fail)]
    /\ events' = events + 1
    /\ UNCHANGED <<now, nextArticleId, nextChatId>>

\* POST /admin/api/users/<id>/toggle-active
AdminToggleUserActive(r, caller, target, bound) ==
    /\ CanBegin(r, bound)
    /\ caller \in DOMAIN users
    /\ \E fail \in FaultChoices(IdleRequest) :
         LET allowed == is_superadmin(caller)
             found == target \in DOMAIN users
             protected == found /\ IsProtected(target)
             done == allowed /\ found /\ ~protected /\ ~fail
         IN  /\ fail => (allowed /\ found /\ ~protected)
             /\ users' = IF done
                         THEN [users EXCEPT ![target].is_active = ~users[target].is_active]
                         ELSE users
             /\ req' = [req EXCEPT ![r] =
                  Answer(r, "admin_toggle_active", caller, NoSid, NoId, target,
                         IF ~allowed THEN 404 ELSE IF ~found THEN 500
                         ELSE IF protected THEN 403
                         ELSE IF fail THEN 500 ELSE 200, fail)]
    /\ events' = events + 1
    /\ UNCHANGED <<now, articles, chats, nextArticleId, nextChatId>>

(* ------------------------------------------------------------------ *)
(* Time                                                               *)
(* ------------------------------------------------------------------ *)
Tick(d, bound) ==
    /\ events < bound
    /\ \A r \in Requests : Free(r)
    /\ now' = now + d
    /\ events' = events + 1
    /\ UNCHANGED <<users, articles, chats, nextArticleId, nextChatId, req>>

(* ------------------------------------------------------------------ *)
(* Specification of the quota tracker: one request at a time          *)
(* ------------------------------------------------------------------ *)
Texts == {TextZero, TextOne, TextTwo}
TickDays == {1, QuotaWindowDays}

\* counters an account can have reached by earlier use
InitCounters == {<<0, 0>>, <<MONTHLY_WORD_LIMIT - 1, MONTHLY_DOWNLOAD_LIMIT - 1>>,
                 <<MONTHLY_WORD_LIMIT, MONTHLY_DOWNLOAD_LIMIT>>}

Init ==
    /\ now = QuotaWindowDays
    /\ \E c \in InitCounters, lqr \in {NoTime, 0} :
         users = [u \in UserIds |->
                    IF u = 1
                    THEN [NewUser EXCEPT !.words_generated_this_month = c[1],
                                         !.downloads_this_month = c[2],
                                         !.last_quota_reset = lqr]
                    ELSE NewUser]
    /\ articles = <<>>
    /\ chats = <<>>
    /\ nextArticleId = 1
    /\ nextChatId = 1
    /\ req = [r \in Requests |-> IdleRequest]
    /\ events = 0

ExistingSids == {chats[c].session_id : c \in DOMAIN chats}

Next ==
    \/ \E d \in TickDays : Tick(d, MaxEvents)
    \/ \E sid \in {NoSid} \cup ExistingSids :
         BeginGenerateArticle(1, 1, ShortTopic, sid, MaxEvents)
    \/ \E sid \in {NoSid} \cup ExistingSids :
         BeginGenerateScript(1, 1, ShortTopic, sid, MaxEvents)
    \/ \E aid \in {NoId} \cup DOMAIN articles, sid \in {NoSid} \cup ExistingSids,
          used \in {0, AuthRefinementLimit} :
         BeginRefineArticle(1, 1, aid, sid, used, MaxEvents)
    \/ \E aid \in {1} : BeginApiDownload(1, 1, aid, MaxEvents)
    \/ \E aid \in {NoId, 1} : BeginDownloadDocx(1, 1, aid, MaxEvents)
    \/ \E caller \in UserIds : AdminResetUserLimits(1, caller, 1, MaxEvents)
    \/ CheckWordQuota(1)
    \/ \E t \in Texts : AiCall(1, "text", t)
    \/ \E o \in {"empty", "raise"} : AiCall(1, o, <<>>)
    \/ SaveChatSessionRead(1)
    \/ SaveChatSession(1)
    \/ SaveArticleRead(1)
    \/ SaveArticleCommit(1)
    \/ RefineCount(1)
    \/ RefineSaveArticle(1)
    \/ RefineSaveChat(1)
    \/ CheckDownloadQuota(1)
    \/ DownloadCountArticle(1)
    \/ DownloadCountUser(1)

Spec == Init /\ [][Next]_vars

(* ------------------------------------------------------------------ *)
(* Claims about the quota tracker (specification Spec)                *)
(* ------------------------------------------------------------------ *)
CheckPcs == {"check_words", "check_dl"}
AfterCheckPcs == {"ai", "dl_article"}
\* the step of request r is the call of a quota check
CheckReturns(r) == req[r].pc \in CheckPcs /\ req'[r].pc \notin CheckPcs
ExpiredNow(u) == QuotaExpired(users[u].last_quota_reset, now)

C1_Step(r) ==
    LET u == req[r].user
    IN  (CheckReturns(r) /\ ExpiredNow(u)) =>
           /\ req'[r].quota_ok
           /\ req'[r].pc \in AfterCheckPcs
           /\ req'[r].status # 403
           /\ ~req'[r].check_dberr =>
                 /\ users'[u].words_generated_this_month = 0
                 /\ users'[u].downloads_this_month = 0
                 /\ users'[u].last_quota_reset = now

\* C1: a quota check (words or downloads) called for a user whose
\* last_quota_reset is unset or more than 30 days old returns True whatever the
\* counters were, and its commit stores both counters as 0 and last_quota_reset
\* as now.
C1_ExpiredWindowResetsAndPasses == [][\A r \in Requests : C1_Step(r)]_vars

\* a check has just reset and admitted a user who was at or above both ceilings
C1_Witness ==
    \E r \in Requests :
        /\ req[r].pc \in AfterCheckPcs
        /\ req[r].quota_ok /\ ~req[r].check_dberr /\ ~req[r].in_window
        /\ req[r].words_at_begin >= MONTHLY_WORD_LIMIT
        /\ req[r].downloads_at_begin >= MONTHLY_DOWNLOAD_LIMIT
        /\ users[req[r].user].words_generated_this_month = 0
        /\ users[req[r].user].downloads_this_month = 0
        /\ users[req[r].user].last_quota_reset = now

\* a counter of user u goes from a positive value to zero in this step
Zeroed(u) ==
    /\ u \in DOMAIN users /\ u \in DOMAIN users'
    /\ \/ /\ users[u].words_generated_this_month > 0
          /\ users'[u].words_generated_this_month = 0
       \/ /\ users[u].downloads_this_month > 0
          /\ users'[u].downloads_this_month = 0

\* this step is a successful reset_user_limits request for user u
AdminResetStep(u) ==
    \E r \in Requests :
        /\ events' = events + 1
        /\ req'[r].op = "admin_reset" /\ req'[r].target = u /\ req'[r].status = 200

\* C2 as stated: no step zeroes a counter of a user whose last_quota_reset is
\* set and at most 30 days old.
C2_ZeroedOnlyWhenExpired ==
    [][\A u \in UserIds : Zeroed(u) => ExpiredNow(u)]_vars

\* C2 as amended: a counter is zeroed only in a step where the user's
\* last_quota_reset is unset or more than 30 days old, or by the admin
\* reset_user_limits endpoint, which zeroes both counters at any time.
C2_ZeroedOnlyWhenExpiredOrByAdmin ==
    [][\A u \in UserIds : Zeroed(u) => (ExpiredNow(u) \/ AdminResetStep(u))]_vars

\* an admin reset has zeroed the counters of a user inside the window
C2_Witness ==
    \E r \in Requests :
        /\ req[r].op = "admin_reset" /\ req[r].status = 200 /\ req[r].in_window
        /\ req[r].words_at_begin > 0 /\ req[r].downloads_at_begin > 0
        /\ users[req[r].target].words_generated_this_month = 0
        /\ users[req[r].target].downloads_this_month = 0

C3_Step(r) ==
    LET u == req[r].user
        allowed == IF req[r].pc = "check_words"
                   THEN users[u].words_generated_this_month < MONTHLY_WORD_LIMIT
                   ELSE users[u].downloads_this_month < MONTHLY_DOWNLOAD_LIMIT
    IN  (CheckReturns(r) /\ ~ExpiredNow(u)) =>
           /\ req'[r].quota_ok <=> allowed
           /\ allowed => (req'[r].pc \in AfterCheckPcs /\ req'[r].status # 403)
           /\ ~allowed => (req'[r].pc = "done" /\ req'[r].status = 403)

\* C3: inside the window the word check allows exactly when
\* words_generated_this_month < 15000 and the download check exactly when
\* downloads_this_month < 10; a denied request ends with 403.
C3_AllowedExactlyBelowCeiling == [][\A r \in Requests : C3_Step(r)]_vars

\* a generation was denied with the counter exactly at the ceiling
C3_Witness ==
    \E r \in Requests :
        /\ req[r].pc = "done" /\ req[r].status = 403 /\ req[r].in_window
        /\ req[r].op \in {"article", "script", "refine"}
        /\ req[r].refinements_used < AuthRefinementLimit
        /\ users[req[r].user].words_generated_this_month = MONTHLY_WORD_LIMIT

GenerationOps == {"article", "script", "refine"}

\* C4: every generation request that succeeds without a database error has
\* added the whitespace-split word count of the generated text to the user's
\* words_generated_this_month (words0 is the counter as the quota check left it).
C4_EveryGenerationCountsWords ==
    \A r \in Requests :
        (/\ req[r].pc = "done" /\ req[r].status = 200
         /\ req[r].op \in GenerationOps /\ req[r].faults = 0) =>
            users[req[r].user].words_generated_this_month =
                req[r].words0 + WordCount(req[r].text)

C5_Step(r) ==
    (CheckReturns(r) /\ req'[r].check_dberr) =>
        /\ req'[r].quota_ok
        /\ req'[r].pc \in AfterCheckPcs
        /\ req'[r].status = 0

Counters(row) == <<row.articles_generated, row.words_generated_this_month,
                   row.downloads_this_month, row.last_quota_reset>>

C7_Step(r) ==
    LET q == req[r]
        u == q.user
        saved == req'[r].art_ret # NoId
        wc == WordCount(q.text)
    IN  (q.op = "article" /\ q.pc \in {"save_article", "save_article_commit"}
         /\ req'[r].pc = "done") =>
           /\ req'[r].art_dberr => ~saved
           /\ (Counters(users'[u]) = Counters(users[u])) <=> ~saved
           /\ ~saved => (articles' = articles /\ users' = users)
           /\ saved =>
                /\ DOMAIN articles' = DOMAIN articles \cup {req'[r].art_ret}
                /\ req'[r].art_ret \notin DOMAIN articles
                /\ Counters(users'[u]) =
                     IF ExpiredNow(u)
                     THEN <<users[u].articles_generated + 1, wc, 0, now>>
                     ELSE <<users[u].articles_generated + 1,
                            users[u].words_generated_this_month + wc,
                            users[u].downloads_this_month,
                            users[u].last_quota_reset>>

C8_DbErrorIsRetried ==
    \A r \in Requests :
        /\ req[r].chat_dberr => req[r].chat_attempts > 1
        /\ req[r].art_dberr => req[r].art_attempts > 1
        /\ req[r].check_dberr => req[r].check_attempts > 1

(* ------------------------------------------------------------------ *)
(* Specification of concurrent generations: two requests of one user, *)
(* each in its own worker with its own ORM session                    *)
(* ------------------------------------------------------------------ *)
RaceTexts == {TextOne, TextTwo}

InitRace ==
    /\ now = QuotaWindowDays
    /\ \E c \in InitCounters :
         users = [u \in UserIds |->
                    IF u = 1
                    THEN [NewUser EXCEPT !.words_generated_this_month = c[1],
                                         !.downloads_this_month = c[2],
                                         !.last_quota_reset = 0]
                    ELSE NewUser]
    /\ articles = <<>>
    /\ chats = <<>>
    /\ nextArticleId = 1
    /\ nextChatId = 1
    /\ req = [r \in Requests |-> IdleRequest]
    /\ events = 0

NextRace ==
    \E r \in Requests :
        \/ BeginGenerateArticle(r, 1, ShortTopic, NoSid, MaxRaceEvents)
        \/ CheckWordQuota(r)
        \/ \E t \in RaceTexts : AiCall(r, "text", t)
        \/ AiCall(r, "raise", <<>>)
        \/ SaveChatSessionRead(r)
        \/ SaveChatSession(r)
        \/ SaveArticleRead(r)
        \/ SaveArticleCommit(r)

SpecRace == InitRace /\ [][NextRace]_vars

AdmittedPcs == {"ai", "save_chat", "save_chat_commit", "save_article",
                "save_article_commit"}

C6_Step(r) ==
    LET q == req[r]
        u == q.user
    IN  /\ (q.pc = "check_words" /\ req'[r].pc # "check_words" /\ ~ExpiredNow(u)
            /\ users[u].words_generated_this_month < MONTHLY_WORD_LIMIT) =>
               (req'[r].quota_ok /\ req'[r].pc = "ai" /\ users' = users)
        /\ (q.quota_ok /\ q.pc \in AdmittedPcs /\ req'[r] # q) =>
               (req'[r].quota_ok /\ req'[r].status # 403)
        /\ (q.pc = "save_article_commit" /\ req'[r].pc = "done"
            /\ ~req'[r].art_dberr) =>
               (req'[r].art_ret # NoId /\ req'[r].status = 200)

\* C6: the word-quota check admits a request on the stored counter alone and
\* takes nothing from it, and nothing after the check looks at the counter
\* again: an admitted request is never denied later and its article is saved
\* whatever the counter has become. So two requests of one user can both be
\* admitted below the ceiling and both complete.
C6_CheckThenActNotAtomic == [][\A r \in Requests : C6_Step(r)]_vars

\* both requests began one word below the ceiling, both were admitted, both
\* saved an article of at least one word, and the counter is at the ceiling
C6_Witness ==
    /\ \A r \in Requests :
         /\ req[r].pc = "done" /\ req[r].status = 200 /\ req[r].op = "article"
         /\ req[r].user = 1 /\ req[r].quota_ok /\ req[r].in_window
         /\ req[r].words_at_begin = MONTHLY_WORD_LIMIT - 1
         /\ req[r].art_ret # NoId
         /\ WordCount(req[r].text) >= 1
    /\ req[1].art_ret # req[2].art_ret
    /\ users[1].words_generated_this_month >= MONTHLY_WORD_LIMIT

(* ------------------------------------------------------------------ *)
(* Specification of the article and chat-session store: generations   *)
(* and deletions by two workers                                       *)
(* ------------------------------------------------------------------ *)
\* what one earlier generate_article of user 2 (at day 0, text TextOne) left
SeededSid == GeneratedSid(0, 2)
SeededChats ==
    1 :> ChatRow(2, SeededSid, ShortTopic,
                 NewMessages(ShortTopic, FormatHtml(TextOne), 0), TextOne, "ARTICLE", 0)
SeededArticles ==
    1 :> ArticleRow(2, ShortTopic, FormatHtml(TextOne), TextOne, FALSE,
                    WordCount(TextOne), 1, 0)

InitStore ==
    /\ now = QuotaWindowDays
    /\ \E seeded \in BOOLEAN :
         /\ users = [u \in UserIds |->
                IF seeded /\ u = 2
                THEN [NewUser EXCEPT !.last_quota_reset = 0,
                                     !.articles_generated = 1,
                                     !.words_generated_this_month = WordCount(TextOne)]
                ELSE [NewUser EXCEPT !.last_quota_reset = 0]]
         /\ articles = IF seeded THEN SeededArticles ELSE <<>>
         /\ chats = IF seeded THEN SeededChats ELSE <<>>
         /\ nextArticleId = IF seeded THEN 2 ELSE 1
         /\ nextChatId = IF seeded THEN 2 ELSE 1
    /\ req = [r \in Requests |-> IdleRequest]
    /\ events = 0

\* the topic and chat_session_id of a generate_article request body: the
\* 201-character topic comes with a session id of the client
StoreArticleInputs ==
    {<<ShortTopic, NoSid>>, <<ShortTopic, ClientSid>>, <<LongTopic, ClientSid>>}
StoreSids == {NoSid, ClientSid}
ArticleIds == {1, 2}
ChatIds == {1, 2}

NextStore ==
    \E r \in Requests :
        \/ \E inp \in StoreArticleInputs :
             BeginGenerateArticle(r, 1, inp[1], inp[2], MaxStoreEvents)
        \/ \E sid \in StoreSids :
             BeginGenerateScript(r, 1, ShortTopic, sid, MaxStoreEvents)
        \/ CheckWordQuota(r)
        \/ AiCall(r, "text", TextOne)
        \/ SaveChatSessionRead(r)
        \/ SaveChatSession(r)
        \/ SaveArticleRead(r)
        \/ SaveArticleCommit(r)
        \/ \E u \in UserIds, aid \in ArticleIds : DeleteArticle(r, u, aid, MaxStoreEvents)
        \/ \E u \in UserIds : DeleteChatSession(r, u, ClientSid, MaxStoreEvents)
        \/ \E caller \in UserIds, aid \in ArticleIds :
             AdminDeleteContent(r, caller, aid, MaxStoreEvents)
        \/ \E caller \in UserIds, c \in ChatIds :
             AdminDeleteSession(r, caller, c, MaxStoreEvents)
        \/ \E u \in UserIds : ProfileDeleteAccount(r, u, MaxStoreEvents)
        \/ \E caller \in UserIds, target \in UserIds :
             AdminDeleteUser(r, caller, target, MaxStoreEvents)
        \/ \E route \in AdminRoutes : AdminAnonymous(r, route, MaxStoreEvents)
        \/ \E caller \in UserIds :
             AdminToggleContentPublic(r, caller, 1, MaxStoreEvents)
        \/ \E caller \in UserIds, target \in UserIds :
             AdminToggleUserActive(r, caller, target, MaxStoreEvents)

SpecStore == InitStore /\ [][NextStore]_vars

C9_Step(r) ==
    LET q == req[r]
        u == q.user
        sid == SessionIdOf(q)
        matches == IF q.chat_found = NoId THEN {} ELSE {q.chat_found}
        c == req'[r].chat_ret
        Stored(row) ==
            /\ row.user_id = u /\ row.session_id = sid
            /\ row.title = Truncate(SessionTitleOf(q), TitleMaxLen)
            /\ row.messages = set_messages(SessionMessagesOf(q))
            /\ row.raw_text = q.text
            /\ row.studio_type = StudioTypeOf(q)
    IN  (q.pc = "save_chat_commit" /\ req'[r].pc # "save_chat_commit"
         /\ ~req'[r].chat_dberr) =>
           /\ c \in DOMAIN chats' /\ Stored(chats'[c])
           /\ \A o \in DOMAIN chats \ {c} : chats'[o] = chats[o]
           /\ matches = {} => (c \notin DOMAIN chats
                               /\ DOMAIN chats' = DOMAIN chats \cup {c})
           /\ matches # {} => (c \in matches /\ DOMAIN chats' = DOMAIN chats)

\* C9: save_chat_session_to_db is an upsert keyed by (user_id, session_id):
\* a call whose query finds no row of the key inserts one holding its arguments; a
\* call that finds one creates no row, returns that row's id and stores its
\* arguments in it, so a second call with the same arguments leaves title,
\* messages, raw_text and studio_type as the first call stored them.
C9_UpsertIsIdempotent == [][\A r \in Requests : C9_Step(r)]_vars

\* two requests made the same call one after the other: one row, same id
C9_Witness ==
    /\ \A r \in Requests :
         /\ req[r].pc = "done" /\ req[r].op = "script" /\ req[r].status = 200
         /\ req[r].user = 1 /\ req[r].sid = ClientSid
         /\ req[r].topic = ShortTopic /\ req[r].text = TextOne
         /\ ~req[r].chat_dberr /\ req[r].chat_ret # NoId
    /\ req[1].chat_ret = req[2].chat_ret
    /\ ChatsOf(1, ClientSid) = {req[1].chat_ret}
    /\ nextChatId = 2
    /\ chats[req[1].chat_ret].raw_text = TextOne
    /\ chats[req[1].chat_ret].messages = set_messages(SessionMessagesOf(req[2]))

\* C10: in every reachable state each Article's chat_session_id is NULL or
\* the id of an existing ChatSession.
C10_NoDanglingChatReference ==
    \A a \in DOMAIN articles :
        articles[a].chat_session_id = NoId
        \/ articles[a].chat_session_id \in DOMAIN chats

(* ------------------------------------------------------------------ *)
(* Account deletion                                                   *)
(* ------------------------------------------------------------------ *)
\* the rows of table that do not belong to user u
RowsOfOthers(table, u) ==
    [k \in {j \in DOMAIN table : table[j].user_id # u} |-> table[k]]

C11_Step(u) ==
    (u \in DOMAIN users /\ u \notin DOMAIN users') =>
        /\ \A a \in DOMAIN articles' : articles'[a].user_id # u
        /\ \A c \in DOMAIN chats' : chats'[c].user_id # u
        /\ articles' = RowsOfOthers(articles, u)
        /\ chats' = RowsOfOthers(chats, u)
        /\ \A v \in DOMAIN users \ {u} : v \in DOMAIN users' /\ users'[v] = users[v]

\* C11: the step that deletes a user (profile_delete_account or admin
\* delete_user) leaves no Article and no ChatSession with that user's id, and
\* leaves the users, articles and chat sessions of every other user exactly as
\* they were.
C11_UserDeletionCascades == [][\A u \in UserIds : C11_Step(u)]_vars

\* user 1, who had generated an article in a chat session, has been deleted;
\* the article and the chat session of user 2 are still there
C11_Witness ==
    /\ 1 \notin DOMAIN users /\ 2 \in DOMAIN users
    /\ nextArticleId = 3 /\ nextChatId = 3
    /\ articles = SeededArticles /\ chats = SeededChats
    /\ \E r \in Requests :
         /\ req[r].op \in {"delete_account", "admin_delete_user"}
         /\ req[r].target = 1 /\ req[r].faults = 0

(* ------------------------------------------------------------------ *)
(* Admin access                                                       *)
(* ------------------------------------------------------------------ *)
\* the admin request in slot r was made by a caller who is not a superadmin
AdminDenied(r) ==
    /\ req[r].pc = "done" /\ req[r].op \in AdminRoutes
    /\ ~(req[r].user \in UserIds /\ EmailIsSuperadmin(EmailOf(req[r].user)))

\* C12: every admin request of a caller who is not a superadmin, logged in or
\* not, is answered with 404.
C12_NonSuperadminGets404 ==
    \A r \in Requests : AdminDenied(r) => req[r].status = 404

(* ------------------------------------------------------------------ *)
(* Download ceiling                                                   *)
(* ------------------------------------------------------------------ *)
DownloadOps == {"api_download", "download_docx"}

\* the request in slot r began inside the window with the download counter at
\* or above its ceiling
BeganAtDownloadCeiling(r) ==
    req[r].in_window /\ req[r].downloads_at_begin >= MONTHLY_DOWNLOAD_LIMIT

\* C13: no download request of a user whose downloads_this_month is at the
\* ceiling inside the window is answered with the document (200), on either
\* endpoint.
C13_NoDownloadAtCeiling ==
    \A r \in Requests :
        (req[r].pc = "done" /\ req[r].op \in DownloadOps /\ BeganAtDownloadCeiling(r))
            => req[r].status # 200

(* ------------------------------------------------------------------ *)
(* Error responses                                                    *)
(* ------------------------------------------------------------------ *)
\* the counters the request in slot r can change are as they were when it began
CountersAsAtBegin(r) ==
    LET q == req[r]
    IN  /\ users[q.user].words_generated_this_month = q.words_at_begin
        /\ users[q.user].downloads_this_month = q.downloads_at_begin
        /\ q.article_id \in DOMAIN articles =>
              articles[q.article_id].download_count = q.download_count_at_begin

\* C14: a refinement or download request that ended in the handler's error
\* response (500) has left the user's words_generated_this_month and
\* downloads_this_month and the article's download_count as they were when
\* the request began (requests that began inside the window, so that the lazy
\* quota reset plays no part).
C14_ErrorResponseLeavesNoChange ==
    \A r \in Requests :
        (/\ req[r].pc = "done" /\ req[r].status = 500 /\ req[r].in_window
         /\ req[r].op \in {"refine", "api_download"})
            => CountersAsAtBegin(r)

(* ------------------------------------------------------------------ *)
(* Rolling window                                                     *)
(* ------------------------------------------------------------------ *)
\* last_quota_reset of user u is changed by this step, and not by the admin
LazyResetStep(u) ==
    /\ u \in DOMAIN users /\ u \in DOMAIN users'
    /\ users'[u].last_quota_reset # users[u].last_quota_reset
    /\ ~AdminResetStep(u)

C15_Step(u) ==
    LazyResetStep(u) =>
        /\ \/ users[u].last_quota_reset = NoTime
           \/ now - users[u].last_quota_reset > QuotaWindowDays
        /\ users'[u].last_quota_reset = now

\* C15: a quota check or an article save moves last_quota_reset only to now
\* and only when it was unset or more than 30 days old; so after a lazy reset
\* no check and no save resets the user again until more than 30 days have
\* passed since that reset.
C15_RollingThirtyDayWindow == [][\A u \in UserIds : C15_Step(u)]_vars

\* a lazy reset on day 30; exactly 30 days later a second request was checked
\* and admitted without a reset, the counter keeping the words counted since
C15_Witness ==
    \E r \in Requests :
        /\ req[r].pc = "ai" /\ req[r].in_window /\ req[r].check_attempts = 1
        /\ users[req[r].user].last_quota_reset = QuotaWindowDays
        /\ now = users[req[r].user].last_quota_reset + QuotaWindowDays
        /\ users[req[r].user].words_generated_this_month > 0
        /\ users[req[r].user].words_generated_this_month = req[r].words_at_begin

(* ------------------------------------------------------------------ *)
(* Failure of the AI call                                             *)
(* ------------------------------------------------------------------ *)
C16_Step(r) ==
    (req[r].pc = "ai" /\ req'[r] # req[r] /\ req'[r].ai_outcome = "raise") =>
        /\ req'[r].pc = "done" /\ req'[r].status = 500
        /\ req'[r].ai_calls = 1
        /\ chats' = chats /\ articles' = articles /\ users' = users

\* C16: when CLIENT.generate_content raises in a generation or refinement
\* request, that was the request's only call of the client, the request ends
\* with the 500 error response, and the step changes no chat session, no
\* article and no user counter.
C16_AiFailureNoRetryNoChange == [][\A r \in Requests : C16_Step(r)]_vars

\* a generation admitted inside the window ended 500 after one failed AI call;
\* the tables are empty and the counter is what it was
C16_Witness ==
    \E r \in Requests :
        /\ req[r].pc = "done" /\ req[r].status = 500 /\ req[r].ai_outcome = "raise"
        /\ req[r].ai_calls = 1 /\ req[r].in_window
        /\ req[r].op \in {"article", "script"}
        /\ chats = <<>> /\ articles = <<>>
        /\ req[r].words_at_begin > 0
        /\ users[req[r].user].words_generated_this_month = req[r].words_at_begin

(* ------------------------------------------------------------------ *)
(* Publishing                                                         *)
(* ------------------------------------------------------------------ *)
\* C17: in every reachable state every Article has is_public = True exactly
\* when its published_at is set.
C17_PublicIffPublishedAt ==
    \A a \in DOMAIN articles :
        articles[a].is_public <=> (articles[a].published_at # NoTime)

\* the admin published an article and then unpublished it again
C17_Witness ==
    /\ \A r \in Requests :
         /\ req[r].pc = "done" /\ req[r].op = "admin_toggle_public"
         /\ req[r].status = 200 /\ req[r].article_id = 1
    /\ events = 2
    /\ 1 \in DOMAIN articles
    /\ ~articles[1].is_public /\ articles[1].published_at = NoTime

(* ------------------------------------------------------------------ *)
(* The messages column                                                *)
(* ------------------------------------------------------------------ *)
\* message contents with the characters json.dumps escapes
MessageContents == {<<"a">>, <<"\\", "n">>, <<"\n", "\"", "\\">>}
Messages == {Message(c, isUser, 0) : c \in MessageContents, isUser \in BOOLEAN}
MessageLists == UNION {[1..n -> Messages] : n \in 0..MaxMessages}

InitMessages ==
    /\ now = QuotaWindowDays
    /\ users = [u \in UserIds |-> NewUser]
    /\ articles = <<>>
    /\ chats = <<>>
    /\ nextArticleId = 1
    /\ nextChatId = 1
    /\ req = [r \in Requests |-> IdleRequest]
    /\ events = 0

NextMessages ==
    \/ \E ms \in MessageLists : SaveMessages(1, 1, ClientSid, ms, MaxMessageEvents)
    \/ ApiGetChatSession(1)

SpecMessages == InitMessages /\ [][NextMessages]_vars

\* C18: a list stored by set_messages is read back by get_messages equal in
\* length, order and content, and the empty list is stored as null and read
\* back as the empty list.
C18_MessagesRoundTrip ==
    \A r \in Requests :
        (req[r].op = "save_messages" /\ req[r].chat_ret # NoId) =>
            /\ req[r].messages_in = <<>> =>
                   chats[req[r].chat_ret].messages = NullMessages
            /\ req[r].pc = "done" =>
                   /\ req[r].status = 200
                   /\ Len(req[r].messages_out) = Len(req[r].messages_in)
                   /\ req[r].messages_out = req[r].messages_in

\* a two-message list whose contents differ and hold an escaped character
\* was stored over an earlier list and read back
C18_Witness ==
    /\ req[1].op = "save_messages" /\ req[1].pc = "done" /\ req[1].status = 200
    /\ events = 2
    /\ req[1].messages_in = <<Message(<<"\\", "n">>, TRUE, 0),
                              Message(<<"\n", "\"", "\\">>, FALSE, 0)>>
    /\ req[1].messages_out = req[1].messages_in

(* ------------------------------------------------------------------ *)
(* The message log of a chat session                                  *)
(* ------------------------------------------------------------------ *)
IsPrefix(short, long) ==
    /\ Len(short) <= Len(long)
    /\ SubSeq(long, 1, Len(short)) = short

\* C19: in every step, the messages of every chat session that exists before
\* and after the step are kept in their order at the start of its new list:
\* the list never shrinks and no earlier message is replaced.
C19_MessagesAppendOnly ==
    [][\A c \in DOMAIN chats \cap DOMAIN chats' :
          IsPrefix(get_messages(chats[c].messages),
                   get_messages(chats'[c].messages))]_vars

(* ------------------------------------------------------------------ *)
(* The stored word count of an article                                *)
(* ------------------------------------------------------------------ *)
\* the request r saved an article in this step: a create of
\* generate_article or a refinement update, returning the article's id
SavedArticle(r) ==
    /\ req[r].pc \in {"save_article_commit", "refine_article"}
    /\ req'[r].pc \notin {"save_article_commit", "refine_article", "save_article"}
    /\ req'[r].art_ret # NoId

\* C20: every save_article_to_db that succeeds leaves the new content_html
\* and content_raw in the row, and after every step the word_count of every
\* article is the number of whitespace-separated words of its content_raw.
C20_WordCountMatchesContent ==
    [][/\ \A r \in Requests :
            SavedArticle(r) =>
                /\ req'[r].art_ret \in DOMAIN articles'
                /\ articles'[req'[r].art_ret].content_raw = req[r].text
                /\ articles'[req'[r].art_ret].content_html = FormatHtml(req[r].text)
       /\ \A a \in DOMAIN articles' :
            articles'[a].word_count =
                Cardinality({i \in 1..Len(articles'[a].content_raw) :
                    /\ articles'[a].content_raw[i] \notin Whitespace
                    /\ (i = 1 \/ articles'[a].content_raw[i - 1] \in Whitespace)})]_vars

\* an article created with one word was refined to a text of two words
C20_Witness ==
    /\ req[1].op = "refine" /\ req[1].pc = "done" /\ req[1].status = 200
    /\ req[1].art_ret \in DOMAIN articles
    /\ articles[req[1].art_ret].is_refined
    /\ articles[req[1].art_ret].content_raw = TextTwo
    /\ articles[req[1].art_ret].word_count = 2
    /\ articles[req[1].art_ret].title = ShortTopic

(* ------------------------------------------------------------------ *)
(* The retry wrapper on its own                                       *)
(* ------------------------------------------------------------------ *)
\* what one invocation of a wrapped function can do: return a value or
\* raise an exception
WrappedResults == {NoId, 1, 2}
WrappedExceptions == {"OperationalError", "DatabaseError", "IntegrityError", "ValueError"}
WrappedOutcomes ==
    {[raised |-> "none", result |-> v] : v \in WrappedResults}
    \cup {[raised |-> e, result |-> NoId] : e \in WrappedExceptions}
RetryLimits == {1, CheckMaxRetries, SaveMaxRetries}

\* a call of a function decorated with retry_db_operation(max_retries=n)
WrapperCall(r, n) ==
    /\ req[r].pc = "idle"
    /\ req' = [req EXCEPT ![r] = [IdleRequest EXCEPT !.pc = "wrapper",
                                                     !.op = "wrapper",
                                                     !.max_retries = n]]
    /\ UNCHANGED <<now, users, articles, chats, nextArticleId, nextChatId, events>>

\* one turn of the loop: invoke the function, then return, sleep and go
\* round again, or re-raise
WrapperInvoke(r, o) ==
    /\ req[r].pc = "wrapper"
    /\ LET q == req[r]
           d == RetryDecision(ExceptionClass(o.raised), q.attempt, q.max_retries)
       IN  req' = [req EXCEPT ![r] =
             IF d = "retry"
             THEN [q EXCEPT !.calls = Append(@, o), !.attempt = @ + 1]
             ELSE IF d = "return"
             THEN [q EXCEPT !.calls = Append(@, o), !.pc = "done",
                            !.wrapper_outcome = "return",
                            !.wrapper_ret = o.result]
             ELSE [q EXCEPT !.calls = Append(@, o), !.pc = "done",
                            !.wrapper_outcome = "raise",
                            !.wrapper_raised = o.raised]]
    /\ UNCHANGED <<now, users, articles, chats, nextArticleId, nextChatId, events>>

InitRetry == InitMessages

NextRetry ==
    \/ \E n \in RetryLimits : WrapperCall(1, n)
    \/ \E o \in WrappedOutcomes : WrapperInvoke(1, o)

\* the request thread keeps running: a sleep of the backoff ends and the
\* wrapped function returns or raises
SpecRetry == InitRetry /\ [][NextRetry]_vars /\ WF_vars(NextRetry)

DbErrors == {"OperationalError", "DatabaseError", "IntegrityError"}
WrapperSafe(q) ==
    /\ Len(q.calls) <= q.max_retries
    /\ \A i \in 1..Len(q.calls) :
         (i < Len(q.calls) \/ q.pc = "wrapper") => q.calls[i].raised \in DbErrors
    /\ q.pc = "done" =>
         LET last == q.calls[Len(q.calls)]
         IN  /\ q.calls # <<>>
             /\ q.wrapper_outcome \in {"return", "raise"}
             /\ q.wrapper_outcome = "return" <=> last.raised = "none"
             /\ q.wrapper_outcome = "return" => q.wrapper_ret = last.result
             /\ q.wrapper_outcome = "raise" => q.wrapper_raised = last.raised
             /\ last.raised \in DbErrors => Len(q.calls) = q.max_retries

\* C21: a wrapped function is invoked at most max_retries times, the call
\* returns the result of the first invocation that does not raise, re-raises
\* the database error of the max_retries-th consecutive failure, re-raises
\* any other exception at once, and every call of the wrapper ends.
C21_WrapperBoundedAndTerminates ==
    /\ [](\A r \in Requests : req[r].op = "wrapper" => WrapperSafe(req[r]))
    /\ \A r \in Requests : (req[r].pc = "wrapper") ~> (req[r].pc = "done")

\* three consecutive database errors under max_retries = 3: re-raised
C21_Witness ==
    /\ req[1].op = "wrapper" /\ req[1].pc = "done"
    /\ req[1].max_retries = SaveMaxRetries
    /\ Len(req[1].calls) = SaveMaxRetries
    /\ \A i \in 1..Len(req[1].calls) : req[1].calls[i].raised = "OperationalError"
    /\ req[1].wrapper_outcome = "raise"
    /\ req[1].wrapper_raised = "OperationalError"

(* ------------------------------------------------------------------ *)
(* The refinement limit                                               *)
(* ------------------------------------------------------------------ *)
\* user 1 has generated one article in one chat session, whose messages
\* column holds the generation's two messages or is NULL
RefinedSid == GeneratedSid(0, 1)
InitRefine ==
    /\ now = QuotaWindowDays
    /\ users = [u \in UserIds |->
           IF u = 1
           THEN [NewUser EXCEPT !.last_quota_reset = QuotaWindowDays,
                                !.articles_generated = 1,
                                !.words_generated_this_month = WordCount(TextOne)]
           ELSE NewUser]
    /\ articles = 1 :> ArticleRow(1, ShortTopic, FormatHtml(TextOne), TextOne, FALSE,
                                  WordCount(TextOne), 1, QuotaWindowDays)
    /\ \E ms \in {<<>>, NewMessages(ShortTopic, FormatHtml(TextOne), QuotaWindowDays)} :
         chats = 1 :> ChatRow(1, RefinedSid, ShortTopic, ms, TextOne, "ARTICLE",
                              QuotaWindowDays)
    /\ nextArticleId = 2
    /\ nextChatId = 2
    /\ req = [r \in Requests |-> IdleRequest]
    /\ events = 0

\* the refinements_used of the request body is whatever the client sends
NextRefine ==
    \/ \E used \in {0, AuthRefinementLimit} :
         BeginRefineArticle(1, 1, 1, RefinedSid, used, MaxRefineEvents)
    \/ CheckWordQuota(1)
    \/ AiCall(1, "text", TextOne)
    \/ RefineCount(1)
    \/ RefineSaveArticle(1)
    \/ RefineSaveChat(1)

SpecRefine == InitRefine /\ [][NextRefine]_vars

\* the refinements a chat session's log records: its refinement prompts
RefinementsLogged(c) ==
    Cardinality({i \in 1..Len(get_messages(chats[c].messages)) :
                    /\ get_messages(chats[c].messages)[i].isUser
                    /\ get_messages(chats[c].messages)[i].content = <<"refine">>})

\* C22: no article's session records more than 5 successful refinements, and
\* every accepted refine_article request reports a refinements_remaining of
\* 5 - (refinements_used + 1) that is not negative.
C22_AtMostFiveRefinements ==
    /\ \A c \in DOMAIN chats : RefinementsLogged(c) <= AuthRefinementLimit
    /\ \A r \in Requests :
         (req[r].op = "refine" /\ req[r].pc = "done" /\ req[r].status = 200) =>
             AuthRefinementLimit - (req[r].refinements_used + 1) >= 0

(* ------------------------------------------------------------------ *)
(* Ownership                                                          *)
(* ------------------------------------------------------------------ *)
\* the request answered in this step named an article or a chat session
\* that exists and belongs to another user
NamesForeignArticle(r) ==
    /\ req'[r].op = "delete_article"
    /\ req'[r].article_id \in DOMAIN articles
    /\ articles[req'[r].article_id].user_id # req'[r].user
NamesForeignSession(r) ==
    /\ req'[r].op = "delete_chat"
    /\ ChatsOf(req'[r].user, req'[r].sid) = {}
    /\ \E c \in DOMAIN chats : chats[c].session_id = req'[r].sid

\* C23: a delete request that names an article or a chat session owned by
\* another user changes no article and no chat session and is answered 404.
C23_ForeignObjectNotFound ==
    [][\A r \in Requests :
          (/\ req'[r] # req[r]
           /\ req'[r].pc = "done"
           /\ NamesForeignArticle(r) \/ NamesForeignSession(r)) =>
              /\ articles' = articles
              /\ chats' = chats
              /\ req'[r].status = 404]_vars

(* ------------------------------------------------------------------ *)
(* The messages a refinement appends                                  *)
(* ------------------------------------------------------------------ *)
\* the chat-session update of refine_article committed in this step
RefinedChat(r) ==
    /\ req[r].pc = "refine_chat"
    /\ req'[r].pc = "done" /\ req'[r].status = 200
    /\ ChatsOf(req[r].user, req[r].sid) # {}

\* C24: when refine_article succeeds and the named chat session exists, its
\* messages afterwards parse as the previous list followed by the new user
\* message and then the new AI message, has_refined is True and raw_text is
\* the refined text.
C24_RefinementAppendsPair ==
    [][\A r \in Requests :
          RefinedChat(r) =>
              \A c \in ChatsOf(req[r].user, req[r].sid) :
                  /\ get_messages(chats'[c].messages) =
                         get_messages(chats[c].messages)
                         \o <<Message(<<"refine">>, TRUE, now),
                              Message(FormatHtml(req[r].text), FALSE, now)>>
                  /\ chats'[c].has_refined
                  /\ chats'[c].raw_text = req[r].text]_vars

\* a refinement was appended to a session whose messages column was NULL
C24_Witness ==
    /\ req[1].op = "refine" /\ req[1].pc = "done" /\ req[1].status = 200
    /\ events = 1
    /\ chats[1].has_refined
    /\ get_messages(chats[1].messages) =
           <<Message(<<"refine">>, TRUE, now),
             Message(FormatHtml(TextOne), FALSE, now)>>

(* ------------------------------------------------------------------ *)
(* Superadmin accounts are protected                                  *)
(* ------------------------------------------------------------------ *)
\* the admin request answered in this step named an existing account whose
\* e-mail, lower-cased and stripped, is in the superadmin list
NamesSuperadminAccount(r) ==
    /\ req'[r] # req[r]
    /\ req'[r].pc = "done"
    /\ req'[r].op \in {"admin_delete_user", "admin_toggle_active"}
    /\ req'[r].user # NoId
    /\ req'[r].target \in DOMAIN users
    /\ Strip(Lower(EmailOf(req'[r].target)))
           \in {Strip(Lower(e)) : e \in SUPERADMIN_EMAILS}

\* C25: an admin delete_user or toggle_user_active request that names a
\* superadmin account leaves every user, article and chat session unchanged,
\* and answers 403 to a superadmin caller.
C25_SuperadminAccountsProtected ==
    [][\A r \in Requests :
          NamesSuperadminAccount(r) =>
              /\ users' = users
              /\ articles' = articles
              /\ chats' = chats
              /\ is_superadmin(req'[r].user) => req'[r].status = 403]_vars

\* the superadmin, who owns an article and a chat session, was named in a
\* delete_user request and then in a toggle_user_active request
C25_Witness ==
    /\ req[1].op = "admin_delete_user" /\ req[1].pc = "done"
    /\ req[1].status = 403 /\ req[1].target = 2
    /\ req[2].op = "admin_toggle_active" /\ req[2].pc = "done"
    /\ req[2].status = 403 /\ req[2].target = 2
    /\ users[2].is_active
    /\ ArticlesOf(2, 1) # {}
    /\ ChatsOf(2, SeededSid) # {}

(* ------------------------------------------------------------------ *)
(* The download counter                                               *)
(* ------------------------------------------------------------------ *)
\* a download request of a user is answered in this step, and no database
\* error occurred while it was processed
DownloadAnswered(r) ==
    /\ req'[r] # req[r]
    /\ req'[r].pc = "done"
    /\ req'[r].op \in {"api_download", "download_docx"}
    /\ req'[r].faults = 0

\* the counter a download starts from: the stored one, or zero when the
\* thirty-day window had run out
DownloadsBase(q) == IF q.in_window THEN q.downloads_at_begin ELSE 0

\* C26: with requests processed one at a time and without database errors,
\* every successful download adds exactly 1 to downloads_this_month and
\* leaves it at 10 or less, and a download rejected for quota adds nothing.
C26_DownloadsCountedAndCapped ==
    [][\A r \in Requests :
          DownloadAnswered(r) =>
              /\ req'[r].status = 200 =>
                    /\ users'[req'[r].user].downloads_this_month
                           = DownloadsBase(req'[r]) + 1
                    /\ users'[req'[r].user].downloads_this_month
                           <= MONTHLY_DOWNLOAD_LIMIT
              /\ req'[r].status = 403 =>
                    users'[req'[r].user].downloads_this_month
                        = req'[r].downloads_at_begin]_vars

(* ------------------------------------------------------------------ *)
(* Concurrent additions to the word counter                           *)
(* ------------------------------------------------------------------ *)
\* both requests are generations of user 1 that saved their article without
\* a database error
BothGenerationsSucceeded ==
    \A r \in Requests :
        /\ req[r].op = "article" /\ req[r].pc = "done" /\ req[r].status = 200
        /\ req[r].user = 1
        /\ req[r].art_ret # NoId
        /\ req[r].faults = 0

\* the counter before the first of the two requests began
WordsBeforeBoth ==
    IF req[1].words_at_begin <= req[2].words_at_begin
    THEN req[1].words_at_begin ELSE req[2].words_at_begin

\* C27: when two generations of one user have both succeeded, the counter
\* is its initial value plus the words of both.
C27_NoLostIncrement ==
    BothGenerationsSucceeded =>
        users[1].words_generated_this_month =
            WordsBeforeBoth + WordCount(req[1].text) + WordCount(req[2].text)

(* ------------------------------------------------------------------ *)
(* One chat session per key                                           *)
(* ------------------------------------------------------------------ *)
\* C28: in every reachable state at most one ChatSession row exists per
\* (user_id, session_id).
C28_OneSessionPerKey ==
    \A c1 \in DOMAIN chats, c2 \in DOMAIN chats :
        (/\ chats[c1].user_id = chats[c2].user_id
         /\ chats[c1].session_id = chats[c2].session_id) => c1 = c2

(* ------------------------------------------------------------------ *)
(* Generated session ids                                              *)
(* ------------------------------------------------------------------ *)
\* the request r, sent without a chat_session_id, saved its chat session in
\* this step
SavedGeneratedSession(r) ==
    /\ req[r].pc = "save_chat_commit"
    /\ req[r].sid = NoSid
    /\ req'[r].pc # "save_chat_commit"
    /\ req'[r].chat_ret # NoId

\* C29: a generation sent without a chat_session_id creates a new
\* ChatSession: its generated id is the id of no existing session of the
\* user, and every existing session is left as it was.
C29_GeneratedSessionIsNew ==
    [][\A r \in Requests :
          SavedGeneratedSession(r) =>
              /\ req'[r].chat_ret \notin DOMAIN chats
              /\ \A c \in DOMAIN chats :
                   /\ chats[c].user_id = req[r].user =>
                          chats[c].session_id # req'[r].sid
                   /\ chats'[c] = chats[c]]_vars

====
